---- MODULE Spec2Model ----
(***************************************************************************)
(* Model of the Instagram profile actor (src/src/main.py): main() reads    *)
(* the input, strips each username, creates one process_and_save_username  *)
(* coroutine per non-empty username, runs them under an asyncio.Semaphore  *)
(* and drains them with asyncio.as_completed.  Each coroutine runs         *)
(* fetch_with_retries (up to MAX_RETRIES calls of fetch_profile with an    *)
(* exponential sleep after every caught fault) and pushes the record to    *)
(* the dataset when its "error" field is None.                             *)
(*                                                                         *)
(* A username is a sequence of one-character strings.  An exception is a   *)
(* record [type, status]; a result is a record [username, error] where     *)
(* error is a record [kind, detail] (kind "None" models Python's None).    *)
(***************************************************************************)
EXTENDS Integers, Sequences, FiniteSets, TLC

(***************************************************************************)
(* Bounds of the model.                                                    *)
(***************************************************************************)
\* Longest input list "usernames" that is explored.
MaxBatch == 2
\* Largest value of the input "concurrency" that is explored.
MaxConcurrency == 2

(***************************************************************************)
(* Program constants.                                                      *)
(***************************************************************************)
MAX_RETRIES == 3
BASE_DELAY_SECONDS == 2

\* The characters username.strip("@ ") removes at both ends.
StripChars == {"@", " "}

\* Whitespace in the usual sense (str.isspace): the space and, as a sample
\* of the other whitespace characters, the tab.
Whitespace == {" ", "\t"}

\* The raw entries of the input list that are explored.
RawNames ==
    { <<>>, <<"@">>, <<" ", " ">>, <<"\t">>,
      <<"a">>, <<" ", "@", "a", " ">> }

(***************************************************************************)
(* str.strip(chars): drop every leading and every trailing character that  *)
(* is in chars.                                                            *)
(***************************************************************************)
RECURSIVE lstrip(_, _)
lstrip(s, chars) ==
    IF s # <<>> /\ Head(s) \in chars THEN lstrip(Tail(s), chars) ELSE s

RECURSIVE rstrip(_, _)
rstrip(s, chars) ==
    IF s # <<>> /\ s[Len(s)] \in chars
    THEN rstrip(SubSeq(s, 1, Len(s) - 1), chars)
    ELSE s

strip(s, chars) == rstrip(lstrip(s, chars), chars)

\* clean_username = username.strip("@ ")
clean_username(username) == strip(username, StripChars)

(***************************************************************************)
(* Exceptions and results.                                                 *)
(***************************************************************************)
NoException == [type |-> "NoneType", status |-> 0]

\* r.raise_for_status() raises httpx.HTTPStatusError for every 4xx and 5xx
\* status; these are the statuses explored.
ErrorStatuses == {403, 500}

HTTPStatusError(s) == [type |-> "HTTPStatusError", status |-> s]
ProxyError == [type |-> "ProxyError", status |-> 0]
ReadTimeout == [type |-> "ReadTimeout", status |-> 0]
ConnectError == [type |-> "ConnectError", status |-> 0]
JSONDecodeError == [type |-> "JSONDecodeError", status |-> 0]
\* A failure of proxy_config.new_url (no outbound identity obtained).
NewUrlError == [type |-> "ConnectionError", status |-> 0]

\* A retry loop whose first except clause takes every exception.
CaughtForRetryAny(e) == TRUE

\* except (httpx.HTTPStatusError, httpx.ProxyError, httpx.ReadTimeout)
CaughtForRetry(e) == e.type \in {"HTTPStatusError", "ProxyError", "ReadTimeout"}

\* What one iteration of the retry loop can raise.
Exceptions ==
    { HTTPStatusError(s) : s \in ErrorStatuses }
        \cup { ProxyError, ReadTimeout, ConnectError, JSONDecodeError, NewUrlError }

None == [kind |-> "None", detail |-> ""]

\* {"username": username, "error": "Profile does not exist or is private"}
NotFoundError == [kind |-> "Profile does not exist or is private", detail |-> ""]

\* f"Failed after {MAX_RETRIES} attempts: {type(last_error).__name__}"
FailedAfterError(last_error) ==
    [kind |-> "Failed after MAX_RETRIES attempts", detail |-> last_error.type]

\* f"An unexpected error occurred: {type(e).__name__}: {e}"
UnexpectedError(e) ==
    [kind |-> "An unexpected error occurred", detail |-> e.type]

Result(username, error) == [username |-> username, error |-> error]

NoResult == Result(<<>>, [kind |-> "pending", detail |-> ""])

\* A backoff that does not grow.
delayConstant(attempt) == BASE_DELAY_SECONDS

\* delay = BASE_DELAY_SECONDS * (2 ** attempt)
delay(attempt) == BASE_DELAY_SECONDS * (2 ^ attempt)

\* str(n) for a natural number, as a sequence of characters.
Digits == << "0", "1", "2", "3", "4", "5", "6", "7", "8", "9" >>

RECURSIVE str(_)
str(n) ==
    IF n < 10 THEN << Digits[n + 1] >>
    ELSE str(n \div 10) \o << Digits[(n % 10) + 1] >>

\* A session key that leaves the attempt number out.
session_idOfUsername(username, attempt) == << "session_" >> \o username

\* session_id = f'session_{username}_{attempt}'
session_id(username, attempt) ==
    << "session_" >> \o username \o << "_" >> \o str(attempt)


(***************************************************************************)
(* State.                                                                  *)
(*   usernames        the entries of the input list the dispatch loop has  *)
(*                    not visited yet (the whole list at first)            *)
(*   concurrency      the input "concurrency"                              *)
(*   pc               main's position                                      *)
(*   total_usernames, processed_count   main's two counters                *)
(*   tasks            main's list of coroutines: the cleaned username of   *)
(*                    each, in creation order                              *)
(*   task             per coroutine: st (its position), attempt and        *)
(*                    last_error (the locals of fetch_with_retries),       *)
(*                    delays (the sleeps the call of fetch_with_retries    *)
(*                    has made, oldest first), calls (the iterations of    *)
(*                    its loop that call has finished), sessions (the      *)
(*                    session ids that call has asked new_url for, oldest  *)
(*                    first), result,                                      *)
(*                    pushed (how many of its push_data calls stored a     *)
(*                    record), reported (how many progress messages main   *)
(*                    has emitted for it)                                  *)
(*   semaphore        the semaphore's free slots                           *)
(*   waiters          the coroutines queued on the semaphore, oldest first *)
(*   completed        finished coroutines as_completed has not yet handed  *)
(*                    to main, in completion order                         *)
(*   dataset          the records Actor.push_data stored, oldest first     *)
(*   status           the messages given to Actor.set_status_message       *)
(***************************************************************************)
VARIABLES usernames, concurrency, pc, total_usernames, processed_count,
          tasks, task, semaphore, waiters, completed, dataset, status

vars == << usernames, concurrency, pc, total_usernames, processed_count,
           tasks, task, semaphore, waiters, completed, dataset, status >>

Tasks == 1 .. Len(tasks)

RECURSIVE SeqsUpTo(_, _)
SeqsUpTo(S, n) ==
    IF n = 0 THEN { <<>> }
    ELSE LET shorter == SeqsUpTo(S, n - 1)
         IN  shorter \cup { Append(q, x) : q \in shorter, x \in S }

\* The input lists explored.  An absent "usernames" key and a None input
\* both read as the empty list (inp.get("usernames", [])).
InputLists == SeqsUpTo(RawNames, MaxBatch)

NewTask == [st |-> "created", attempt |-> 0, last_error |-> NoException,
            result |-> NoResult, delays |-> <<>>, calls |-> 0,
            sessions |-> <<>>,
            pushed |-> 0, reported |-> 0]

\* The state at line 203 of main: the input has been read.
Init ==
    /\ usernames \in InputLists
    /\ concurrency \in 1 .. MaxConcurrency
    /\ pc = "check_input"
    /\ total_usernames = 0
    /\ processed_count = 0
    /\ tasks = <<>>
    /\ task = <<>>
    /\ semaphore = 0
    /\ waiters = <<>>
    /\ completed = <<>>
    /\ dataset = <<>>
    /\ status = <<>>

(***************************************************************************)
(* main, lines 205-225.                                                    *)
(***************************************************************************)
\* main without the check of the input list.
CheckInputUnchecked ==
    /\ pc = "check_input"
    /\ pc' = "dispatch"
    /\ semaphore' = concurrency
    /\ total_usernames' = Len(usernames)
    /\ UNCHANGED << usernames, concurrency, processed_count, tasks, task,
                    waiters, completed, dataset, status >>

\* if not usernames: raise ValueError(...); otherwise the semaphore is made
\* and total_usernames = len(usernames).
CheckInput ==
    /\ pc = "check_input"
    /\ IF usernames = <<>>
       THEN /\ pc' = "config_error"
            /\ UNCHANGED << semaphore, total_usernames >>
       ELSE /\ pc' = "dispatch"
            /\ semaphore' = concurrency
            /\ total_usernames' = Len(usernames)
    /\ UNCHANGED << usernames, concurrency, processed_count, tasks, task,
                    waiters, completed, dataset, status >>

\* The loop with "total_usernames -= 1" outside the test for an empty name.
DispatchMiscount ==
    /\ pc = "dispatch"
    /\ usernames # <<>>
    /\ LET clean == clean_username(Head(usernames))
       IN  IF clean = <<>>
           THEN UNCHANGED << tasks, task >>
           ELSE /\ tasks' = Append(tasks, clean)
                /\ task' = Append(task, NewTask)
    /\ total_usernames' = total_usernames - 1
    /\ usernames' = Tail(usernames)
    /\ UNCHANGED << concurrency, pc, processed_count, semaphore, waiters,
                    completed, dataset, status >>

\* One iteration of "for username in usernames".
Dispatch ==
    /\ pc = "dispatch"
    /\ usernames # <<>>
    /\ LET clean == clean_username(Head(usernames))
       IN  IF clean = <<>>
           THEN /\ total_usernames' = total_usernames - 1
                /\ UNCHANGED << tasks, task >>
           ELSE /\ tasks' = Append(tasks, clean)
                /\ task' = Append(task, NewTask)
                /\ UNCHANGED total_usernames
    /\ usernames' = Tail(usernames)
    /\ UNCHANGED << concurrency, pc, processed_count, semaphore, waiters,
                    completed, dataset, status >>

\* The loop is over: asyncio.as_completed(tasks) schedules every coroutine
\* and main starts to await them.
AsCompleted ==
    /\ pc = "dispatch"
    /\ usernames = <<>>
    /\ pc' = "drain"
    /\ UNCHANGED << usernames, concurrency, total_usernames, processed_count,
                    tasks, task, semaphore, waiters, completed, dataset, status >>

(***************************************************************************)
(* process_and_save_username and fetch_with_retries.  The coroutines run   *)
(* while main is suspended in its completion loop.                         *)
(***************************************************************************)
\* The coroutine starts the iteration "attempt" of the retry loop: it asks
\* new_url for the session of this username and attempt.
Attempting(rec, username, attempt) ==
    [rec EXCEPT !.st = "attempting",
                !.attempt = attempt,
                !.sessions = Append(@, session_id(username, attempt))]

\* An entry that never waits for a free slot.
AcquireNoQueue(t) ==
    /\ pc = "drain"
    /\ task[t].st = "created"
    /\ semaphore' = semaphore - 1
    /\ task' = [task EXCEPT ![t] = Attempting(@, tasks[t], 0)]
    /\ UNCHANGED << usernames, concurrency, pc, total_usernames,
                    processed_count, tasks, waiters, completed, dataset,
                    status >>

\* "async with semaphore", entry: take a free slot or queue.  The order in
\* which the coroutines start is not fixed (as_completed keeps them in a set).
Acquire(t) ==
    /\ pc = "drain"
    /\ task[t].st = "created"
    /\ IF semaphore > 0
       THEN /\ semaphore' = semaphore - 1
            /\ task' = [task EXCEPT ![t] = Attempting(@, tasks[t], 0)]
            /\ UNCHANGED waiters
       ELSE /\ waiters' = Append(waiters, t)
            /\ task' = [task EXCEPT ![t].st = "waiting"]
            /\ UNCHANGED semaphore
    /\ UNCHANGED << usernames, concurrency, pc, total_usernames,
                    processed_count, tasks, completed, dataset, status >>

\* "async with semaphore", exit, and the end of the coroutine: the slot goes
\* to the oldest waiter if there is one, and as_completed queues the
\* finished coroutine.  rec is the coroutine's final record.
Leave(t, rec) ==
    /\ IF waiters # <<>>
       THEN /\ task' = [task EXCEPT
                           ![t] = rec,
                           ![Head(waiters)] =
                               Attempting(@, tasks[Head(waiters)], 0)]
            /\ waiters' = Tail(waiters)
            /\ UNCHANGED semaphore
       ELSE /\ task' = [task EXCEPT ![t] = rec]
            /\ semaphore' = semaphore + 1
            /\ UNCHANGED waiters
    /\ completed' = Append(completed, t)

\* fetch_with_retries returned a record whose error is not None: nothing is
\* pushed and the coroutine returns at once.  The locals of
\* fetch_with_retries end with the call.
ReturnError(t, error) ==
    Leave(t, [task[t] EXCEPT !.st = "returned",
                             !.attempt = 0,
                             !.last_error = NoException,
                             !.delays = <<>>,
                             !.calls = 0,
                             !.sessions = <<>>,
                             !.result = Result(tasks[t], error)])

\* fetch_profile found a user object: the record has error None and the
\* coroutine goes on to await Actor.push_data.
AttemptUser(t) ==
    /\ pc = "drain"
    /\ task[t].st = "attempting"
    /\ task' = [task EXCEPT ![t].st = "pushing",
                            ![t].attempt = 0,
                            ![t].last_error = NoException,
                            ![t].delays = <<>>,
                            ![t].calls = 0,
                            ![t].sessions = <<>>,
                            ![t].result = Result(tasks[t], None)]
    /\ UNCHANGED << usernames, concurrency, pc, total_usernames,
                    processed_count, tasks, semaphore, waiters, completed,
                    dataset, status >>

\* fetch_profile found no user object.
AttemptNoUser(t) ==
    /\ pc = "drain"
    /\ task[t].st = "attempting"
    /\ ReturnError(t, NotFoundError)
    /\ UNCHANGED << usernames, concurrency, pc, total_usernames,
                    processed_count, tasks, dataset, status >>

\* A retry loop that gives its slot back for the time of the sleep.
AttemptRaiseReleasing(t, e) ==
    /\ pc = "drain"
    /\ task[t].st = "attempting"
    /\ IF CaughtForRetry(e)
       THEN /\ LET rec == [task[t] EXCEPT
                              !.st = "sleeping",
                              !.last_error = e,
                              !.calls = @ + 1,
                              !.delays = Append(@, delay(task[t].attempt))]
               IN  IF waiters # <<>>
                   THEN /\ task' = [task EXCEPT
                                       ![t] = rec,
                                       ![Head(waiters)] =
                                           Attempting(@, tasks[Head(waiters)], 0)]
                        /\ waiters' = Tail(waiters)
                        /\ UNCHANGED semaphore
                   ELSE /\ task' = [task EXCEPT ![t] = rec]
                        /\ semaphore' = semaphore + 1
                        /\ UNCHANGED waiters
            /\ UNCHANGED completed
       ELSE ReturnError(t, UnexpectedError(e))
    /\ UNCHANGED << usernames, concurrency, pc, total_usernames,
                    processed_count, tasks, dataset, status >>

\* The iteration raised e (from new_url, the request, raise_for_status or
\* the decoding of the body).
AttemptRaise(t, e) ==
    /\ pc = "drain"
    /\ task[t].st = "attempting"
    /\ IF CaughtForRetry(e)
       THEN /\ task' = [task EXCEPT
                           ![t].st = "sleeping",
                           ![t].last_error = e,
                           ![t].calls = @ + 1,
                           ![t].delays = Append(@, delay(task[t].attempt))]
            /\ UNCHANGED << semaphore, waiters, completed >>
       ELSE ReturnError(t, UnexpectedError(e))
    /\ UNCHANGED << usernames, concurrency, pc, total_usernames,
                    processed_count, tasks, dataset, status >>

\* asyncio.sleep(delay) is over: the next iteration of the loop, or the end
\* of the loop and the "Failed after" record.
Wake(t) ==
    /\ pc = "drain"
    /\ task[t].st = "sleeping"
    /\ IF task[t].attempt + 1 < MAX_RETRIES
       THEN /\ task' = [task EXCEPT
                           ![t] = Attempting(@, tasks[t], task[t].attempt + 1)]
            /\ UNCHANGED << semaphore, waiters, completed >>
       ELSE ReturnError(t, FailedAfterError(task[t].last_error))
    /\ UNCHANGED << usernames, concurrency, pc, total_usernames,
                    processed_count, tasks, dataset, status >>

\* A coroutine that returns its record without storing it.
PushDataSkipped(t) ==
    /\ pc = "drain"
    /\ task[t].st = "pushing"
    /\ Leave(t, [task[t] EXCEPT !.st = "returned"])
    /\ UNCHANGED << usernames, concurrency, pc, total_usernames,
                    processed_count, tasks, dataset, status >>

\* Actor.push_data(result) stored the record; the coroutine returns.
PushData(t) ==
    /\ pc = "drain"
    /\ task[t].st = "pushing"
    /\ dataset' = Append(dataset, task[t].result)
    /\ Leave(t, [task[t] EXCEPT !.st = "returned", !.pushed = @ + 1])
    /\ UNCHANGED << usernames, concurrency, pc, total_usernames,
                    processed_count, tasks, status >>

\* Actor.push_data(result) raised: nothing catches it, so the coroutine
\* ends with the exception (the semaphore is still released).
PushDataRaise(t) ==
    /\ pc = "drain"
    /\ task[t].st = "pushing"
    /\ Leave(t, [task[t] EXCEPT !.st = "raised"])
    /\ UNCHANGED << usernames, concurrency, pc, total_usernames,
                    processed_count, tasks, dataset, status >>

(***************************************************************************)
(* main, lines 228-243.                                                    *)
(***************************************************************************)
\* The progress message: f"{processed_count}/{total_usernames} -> {username}"
\* followed by the failure or the success marker.
Message(count, total, result) ==
    [completed |-> count, total |-> total, username |-> result.username,
     marker |-> IF result.error # None THEN "failed" ELSE "ok",
     error |-> result.error]

\* One iteration of the completion loop on a coroutine that returned.
Drain ==
    /\ pc = "drain"
    /\ completed # <<>>
    /\ LET t == Head(completed)
       IN  /\ task[t].st = "returned"
           /\ processed_count' = processed_count + 1
           /\ status' = Append(status, Message(processed_count + 1,
                                               total_usernames, task[t].result))
           /\ task' = [task EXCEPT ![t].reported = @ + 1]
    /\ completed' = Tail(completed)
    /\ UNCHANGED << usernames, concurrency, pc, total_usernames, tasks,
                    semaphore, waiters, dataset >>

\* "result = await future" on a coroutine that ended with an exception: the
\* exception leaves the loop and main.
DrainRaise ==
    /\ pc = "drain"
    /\ completed # <<>>
    /\ task[Head(completed)].st = "raised"
    /\ pc' = "failed"
    /\ completed' = Tail(completed)
    /\ UNCHANGED << usernames, concurrency, total_usernames, processed_count,
                    tasks, task, semaphore, waiters, dataset, status >>

\* as_completed has yielded every coroutine: "Processing complete."
Complete ==
    /\ pc = "drain"
    /\ processed_count = Len(tasks)
    /\ pc' = "done"
    /\ UNCHANGED << usernames, concurrency, total_usernames, processed_count,
                    tasks, task, semaphore, waiters, completed, dataset, status >>

Next ==
    \/ CheckInput
    \/ Dispatch
    \/ AsCompleted
    \/ \E t \in Tasks : Acquire(t)
    \/ \E t \in Tasks : AttemptUser(t)
    \/ \E t \in Tasks : AttemptNoUser(t)
    \/ \E t \in Tasks, e \in Exceptions : AttemptRaise(t, e)
    \/ \E t \in Tasks : Wake(t)
    \/ \E t \in Tasks : PushData(t)
    \/ \E t \in Tasks : PushDataRaise(t)
    \/ Drain
    \/ DrainRaise
    \/ Complete

Spec == Init /\ [][Next]_vars

\* The event loop runs whatever is ready, and every request, sleep and
\* dataset call comes back: no enabled step is put off for ever.
FairSpec == Spec /\ WF_vars(Next)

\* main ends, normally or with an exception.
Terminates == <>(pc \in {"done", "failed", "config_error"})

(***************************************************************************)
(* Vocabulary of the properties.                                           *)
(***************************************************************************)
\* The coroutine is inside "async with semaphore".
Holding(t) == task[t].st \in {"attempting", "sleeping", "pushing"}

Holders == { t \in Tasks : Holding(t) }

\* main is over: it returned, or an exception left it.
RunEnded == pc \in {"done", "failed", "config_error"}

\* The coroutine produced a record: fetch_with_retries returned.
HasRecord(t) == task[t].result # NoResult

Failed(t) == HasRecord(t) /\ task[t].result.error # None

Succeeded(t) == HasRecord(t) /\ task[t].result.error = None

Exhausted(rec) == rec.result.error.kind = "Failed after MAX_RETRIES attempts"

\* The progress messages that carry the failure marker.
FailedMessages == { i \in 1 .. Len(status) : status[i].marker = "failed" }

(***************************************************************************)
(* C1.  Every admitted identifier yields exactly one terminal record: when *)
(* the run has ended, the records in the dataset plus the failed records   *)
(* reported are as many as the admitted identifiers, and every coroutine   *)
(* accounts for exactly one of them.                                       *)
(* Fails: an exception of Actor.push_data ends main in the completion loop *)
(* and the identifiers not yet drained have no record.                     *)
(***************************************************************************)
C1_OneTerminalRecordEach ==
    RunEnded =>
        /\ Len(dataset) + Cardinality(FailedMessages) = total_usernames
        /\ total_usernames = Len(tasks)
        /\ \A t \in Tasks :
              task[t].pushed + (IF Failed(t) THEN task[t].reported ELSE 0) = 1

(***************************************************************************)
(* C2.  An attempt rejected with HTTP 401 or 403 is never retried: once    *)
(* the last fault of a run of fetch_with_retries is such a rejection, the  *)
(* run neither sleeps nor starts another attempt.                          *)
(* Fails: raise_for_status raises HTTPStatusError for 403 as for any other *)
(* status, and the retry loop catches it and sleeps.                       *)
(***************************************************************************)
AuthStatuses == {401, 403}

C2_AuthRejectionNeverRetried ==
    \A t \in Tasks :
        task[t].last_error.status \in AuthStatuses
            => task[t].st \notin {"sleeping", "attempting"}

(***************************************************************************)
(* C3.  When every attempt raises a fault the retry loop catches, there    *)
(* are exactly MAX_RETRIES attempts, then the "Failed after" record, and   *)
(* the sleeps grow strictly: BASE_DELAY_SECONDS * 2^attempt, so 2 seconds  *)
(* between the first two attempts and 4 between the last two.              *)
(***************************************************************************)
C3_DelaysGrow(t) ==
    LET d == task[t].delays
    IN  /\ \A i \in 1 .. Len(d) : d[i] = BASE_DELAY_SECONDS * (2 ^ (i - 1))
        /\ \A i \in 1 .. Len(d) - 1 : d[i] < d[i + 1]
        /\ Len(d) >= 1 => d[1] = 2
        /\ Len(d) >= 2 => d[2] = 4

C3_InFlight ==
    \A t \in Tasks :
        /\ task[t].st = "attempting"
              => /\ task[t].attempt < MAX_RETRIES
                 /\ task[t].calls = task[t].attempt
                 /\ Len(task[t].delays) = task[t].attempt
        /\ task[t].st = "sleeping"
              => /\ task[t].attempt < MAX_RETRIES
                 /\ task[t].calls = task[t].attempt + 1
                 /\ Len(task[t].delays) = task[t].calls
        /\ C3_DelaysGrow(t)

C3_Step ==
    \A t \in Tasks :
        \* The "Failed after" record comes after exactly MAX_RETRIES attempts.
        /\ (Exhausted(task'[t]) /\ ~Exhausted(task[t]))
              => /\ task[t].st = "sleeping"
                 /\ task[t].calls = MAX_RETRIES
                 /\ task'[t].result =
                        Result(tasks[t], FailedAfterError(task[t].last_error))
        \* MAX_RETRIES caught faults in a row end in that record, with no
        \* further attempt.
        /\ (task[t].st = "sleeping" /\ task[t].calls = MAX_RETRIES
                /\ task'[t] # task[t])
              => /\ Exhausted(task'[t])
                 /\ task'[t].st = "returned"
        \* Fewer of them lead to the next attempt.
        /\ (task[t].st = "sleeping" /\ task[t].calls < MAX_RETRIES
                /\ task'[t] # task[t])
              => /\ task'[t].st = "attempting"
                 /\ task'[t].attempt = task[t].attempt + 1

C4_ConcurrencyCeiling ==
    /\ Cardinality(Holders) <= concurrency
    /\ semaphore >= 0
    /\ pc \in {"dispatch", "drain", "done", "failed"}
          => semaphore + Cardinality(Holders) = concurrency

\* The ceiling is reached while another coroutine waits for a slot.
C4_Witness ==
    /\ Cardinality(Holders) = concurrency
    /\ waiters # <<>>
    /\ Len(tasks) > concurrency

(***************************************************************************)
(* C5.  A record is pushed if and only if its error is None: when the run  *)
(* has ended, every record without error was pushed exactly once, and      *)
(* every record with an error was never pushed but was counted in the      *)
(* progress.                                                               *)
(* Fails: when Actor.push_data raises, the record without error is not in  *)
(* the dataset, and the failed records that were not drained yet are not   *)
(* counted.                                                                *)
(***************************************************************************)
C5_PushedIffSuccess ==
    RunEnded =>
        \A t \in Tasks :
            /\ Succeeded(t) => task[t].pushed = 1
            /\ Failed(t) => task[t].pushed = 0 /\ task[t].reported = 1

(***************************************************************************)
(* C6.  An entry that is empty once a leading "@" and the surrounding      *)
(* whitespace are removed is dropped by the dispatch loop: it is taken off *)
(* the total and no coroutine is created for it.                           *)
(* Fails: strip("@ ") removes the space only, so an entry made of a tab is *)
(* admitted.                                                               *)
(***************************************************************************)
\* The normalization in the words of the design: surrounding whitespace and
\* a leading "@" removed.
Normalized(raw) ==
    LET trimmed == strip(raw, Whitespace)
        named == IF trimmed # <<>> /\ Head(trimmed) = "@"
                 THEN Tail(trimmed) ELSE trimmed
    IN  strip(named, Whitespace)

C6_EmptyEntriesDropped ==
    [][ (pc = "dispatch" /\ usernames # <<>>
            /\ Normalized(Head(usernames)) = <<>>)
          => /\ tasks' = tasks
             /\ total_usernames' = total_usernames - 1
             /\ UNCHANGED << dataset, status >> ]_vars

(***************************************************************************)
(* C7.  Over a whole run main emits exactly one progress message per       *)
(* admitted identifier: when the run has ended every coroutine has been    *)
(* reported once, never zero times and never twice.                        *)
(* Fails: after an exception of Actor.push_data main emits no message for  *)
(* that identifier nor for those still to be drained.                      *)
(***************************************************************************)
C7_OneMessageEach ==
    RunEnded =>
        /\ Len(status) = Len(tasks)
        /\ \A t \in Tasks : task[t].reported = 1

(***************************************************************************)
(* C8.  The progress counters are well-formed: processed_count never       *)
(* exceeds total_usernames; it only grows, by one per drained coroutine    *)
(* whatever its record; and total_usernames is fixed once the completion   *)
(* loop has begun.                                                         *)
(***************************************************************************)
C8_Counters ==
    /\ processed_count <= total_usernames
    /\ processed_count = Cardinality({ t \in Tasks : task[t].reported = 1 })
    /\ \A t \in Tasks : task[t].reported <= 1

C8_Step ==
    /\ processed_count' >= processed_count
    /\ processed_count' # processed_count
          => /\ processed_count' = processed_count + 1
             /\ \E t \in Tasks :
                   /\ task[t].st = "returned"
                   /\ task'[t].reported = task[t].reported + 1
                   /\ \A u \in Tasks \ {t} :
                         task'[u].reported = task[u].reported
    /\ \A t \in Tasks :
          task'[t].reported # task[t].reported
              => processed_count' = processed_count + 1
    /\ pc \in {"drain", "done", "failed"}
          => total_usernames' = total_usernames

C8_BatchProgressWellFormed == [] C8_Counters /\ [][C8_Step]_vars

\* Both kinds of record were counted and the count reached the total.
C8_Witness ==
    /\ processed_count = total_usernames
    /\ \E i, j \in 1 .. Len(status) :
          status[i].marker = "ok" /\ status[j].marker = "failed"

(***************************************************************************)
(* C9.  An absent or empty "usernames" aborts the run before any dispatch: *)
(* main raises at the check, and then no coroutine exists, no slot is      *)
(* taken, nothing is in the dataset, no progress message was emitted, and  *)
(* nothing happens any more.                                               *)
(***************************************************************************)
C9_NothingDispatched ==
    pc = "config_error"
        => /\ tasks = <<>> /\ task = <<>>
           /\ completed = <<>> /\ waiters = <<>>
           /\ dataset = <<>> /\ status = <<>>
           /\ processed_count = 0 /\ total_usernames = 0

C9_Step ==
    /\ (pc = "check_input" /\ usernames = <<>>) => pc' = "config_error"
    /\ pc' = "config_error" => (pc = "check_input" /\ usernames = <<>>)
    /\ pc # "config_error"

C9_MissingInputAborts == [] C9_NothingDispatched /\ [][C9_Step]_vars

C9_Witness == pc = "config_error"

(***************************************************************************)
(* C10.  The run finishes exactly when every admitted identifier has       *)
(* reached a terminal record and processed_count equals total_usernames,   *)
(* and not before.                                                         *)
(* Fails: an exception of Actor.push_data ends main while coroutines are   *)
(* still in flight and processed_count is below total_usernames.           *)
(***************************************************************************)
C10_FinishesExactlyWhenAllDone ==
    RunEnded =>
        /\ processed_count = total_usernames
        /\ \A t \in Tasks : task[t].st = "returned" /\ HasRecord(t)
        /\ completed = <<>>

(***************************************************************************)
(* C11.  No identifier is processed twice: no two coroutines of a run are  *)
(* for the same cleaned username, also when two entries of the input are   *)
(* equal or clean to the same name.                                        *)
(* Fails: the dispatch loop creates a coroutine for every non-empty entry  *)
(* and never looks at the names it has already admitted.                   *)
(***************************************************************************)
C11_NoIdentifierTwice ==
    \A t, u \in Tasks : t # u => tasks[t] # tasks[u]

(***************************************************************************)
(* C12.  A network-layer fault (connection failure, proxy failure, read    *)
(* timeout) or an HTTP status error other than 401 and 403 is retried:     *)
(* when an attempt raises one and attempts remain, the run goes on to      *)
(* another attempt.                                                        *)
(* Fails: httpx.ConnectError is not among the exceptions the retry loop    *)
(* catches; "except Exception" turns it into a final record.               *)
(***************************************************************************)
\* The exception the iteration of coroutine t raised in this step, read
\* from where the step left it: last_error when it was caught for a retry,
\* the record's detail when "except Exception" took it.
StepFault(t) ==
    IF task[t].st = "attempting" /\ task'[t].st = "sleeping"
    THEN task'[t].last_error
    ELSE IF /\ task[t].st = "attempting"
            /\ task'[t].result.error.kind = "An unexpected error occurred"
         THEN [type |-> task'[t].result.error.detail, status |-> 0]
         ELSE NoException

\* The classes of the design's classifier.  A failure to obtain the proxy
\* URL counts as a proxy failure.
NetworkFaultTypes ==
    {"ConnectError", "ProxyError", "ReadTimeout", "ConnectionError"}

RetryableByDesign(e) ==
    \/ e.type \in NetworkFaultTypes
    \/ e.type = "HTTPStatusError" /\ e.status \notin AuthStatuses

C12_RetryableIsRetried ==
    [][ \A t \in Tasks :
          (RetryableByDesign(StepFault(t))
              /\ task[t].attempt + 1 < MAX_RETRIES)
            => task'[t].st = "sleeping" ]_vars

(***************************************************************************)
(* C13.  A fault that is neither an HTTP status error nor a network-layer  *)
(* fault (a malformed response body) ends the run of fetch_with_retries on *)
(* whichever attempt it occurs: no sleep and no further attempt follow,    *)
(* and the record is the "unexpected error" record that carries the        *)
(* fault's type; that record never changes afterwards.                     *)
(***************************************************************************)
OtherFatalByDesign(e) ==
    /\ e # NoException
    /\ e.type # "HTTPStatusError"
    /\ e.type \notin NetworkFaultTypes

Unexpected(rec) == rec.result.error.kind = "An unexpected error occurred"

C13_Step ==
    \A t \in Tasks :
        /\ OtherFatalByDesign(StepFault(t))
              => /\ task'[t].st = "returned"
                 /\ task'[t].result =
                        Result(tasks[t], UnexpectedError(StepFault(t)))
                 /\ task'[t].delays = <<>>
        /\ Unexpected(task[t])
              => /\ task'[t].st = "returned"
                 /\ task'[t].result = task[t].result

C13_OtherFatalNotRetried == [][C13_Step]_vars

C13_Witness ==
    \E t \in Tasks :
        /\ task[t].st = "returned"
        /\ task[t].result = Result(tasks[t], UnexpectedError(JSONDecodeError))

(***************************************************************************)
(* C14.  A response without a user object ends the item at once with the  *)
(* "does not exist" record: when the run has ended, that record was not    *)
(* pushed and was counted once in processed_count.                         *)
(* Fails: after an exception of Actor.push_data for another identifier     *)
(* main stops draining, and a "does not exist" record that was not drained *)
(* yet is never counted.                                                   *)
(***************************************************************************)
NotFound(rec) == rec.result.error = NotFoundError

C14_NotFoundEndsItem ==
    RunEnded =>
        \A t \in Tasks :
            NotFound(task[t])
                => /\ task[t].st = "returned"
                   /\ task[t].pushed = 0
                   /\ task[t].reported = 1

(***************************************************************************)
(* C15.  A backoff wait happens only between attempts: a run sleeps after  *)
(* a caught fault only if another attempt remains, so a run that fails on  *)
(* every attempt makes MAX_RETRIES - 1 sleeps.                             *)
(* Fails: the retry loop sleeps in its except clause on every iteration,   *)
(* the last one included, before it returns the "Failed after" record.     *)
(***************************************************************************)
C15_SleepOnlyBetweenAttempts ==
    \A t \in Tasks :
        /\ task[t].st = "sleeping" => task[t].attempt + 1 < MAX_RETRIES
        /\ Len(task[t].delays) <= MAX_RETRIES - 1

(***************************************************************************)
(* C16.  The semaphore slot is held for the whole run of                   *)
(* fetch_with_retries: it is taken before attempt 0, it is kept from one   *)
(* attempt to the next and during every sleep, and it is given back only   *)
(* in the step that ends the coroutine with its record produced.  So a     *)
(* sleeping coroutine counts against "concurrency", and a coroutine waits  *)
(* for a slot only while "concurrency" others hold one.                    *)
(***************************************************************************)
InRetryLoop(rec) == rec.st \in {"attempting", "sleeping"}

C16_SlotsAccounted ==
    /\ pc \in {"dispatch", "drain", "done", "failed"}
          => semaphore + Cardinality(Holders) = concurrency
    /\ waiters # <<>>
          => semaphore = 0 /\ Cardinality(Holders) = concurrency
    /\ \A t \in Tasks :
          task[t].st \in {"created", "waiting"}
              => task[t].sessions = <<>> /\ task[t].calls = 0

C16_Step ==
    \A t \in Tasks :
        \* the first attempt starts with the slot taken
        /\ (~ Holding(t) /\ task'[t].st = "attempting")
              => /\ task'[t].attempt = 0
                 /\ \/ semaphore' = semaphore - 1
                    \/ waiters # <<>> /\ Head(waiters) = t
        \* nothing is released between attempts or during a sleep
        /\ (InRetryLoop(task[t]) /\ InRetryLoop(task'[t]) /\ task'[t] # task[t])
              => semaphore' = semaphore /\ waiters' = waiters
        \* the slot is given back with the record produced
        /\ (Holding(t) /\ task'[t].st \notin {"attempting", "sleeping", "pushing"})
              => /\ task'[t].st \in {"returned", "raised"}
                 /\ task'[t].result # NoResult
                 /\ \/ semaphore' = semaphore + 1
                    \/ waiters # <<>> /\ waiters' = Tail(waiters)

C16_SlotHeldAcrossRetries == [] C16_SlotsAccounted /\ [][C16_Step]_vars

\* A coroutine sleeps between attempts while another one waits for its slot.
C16_Witness ==
    \E t, u \in Tasks :
        /\ task[t].st = "sleeping"
        /\ task[t].attempt >= 1
        /\ task[u].st = "waiting"

(***************************************************************************)
(* C17.  A run of fetch_with_retries is a bounded state machine: it starts *)
(* at attempt 0, the attempt number changes only from n to n + 1, only     *)
(* with n + 1 below MAX_RETRIES and only after a fault that the design     *)
(* classifies as retryable; no attempt follows a returned record; and the  *)
(* attempts of one identifier follow one another, one session per attempt. *)
(* Fails: the attempt number goes from n to n + 1 after HTTP 403, which    *)
(* the design classifies as a fatal authentication failure.                *)
(***************************************************************************)
C17_Step ==
    \A t \in Tasks :
        /\ (~ Holding(t) /\ task'[t].st = "attempting")
              => task'[t].attempt = 0
        /\ (InRetryLoop(task[t]) /\ InRetryLoop(task'[t])
                /\ task'[t].attempt # task[t].attempt)
              => /\ task'[t].attempt = task[t].attempt + 1
                 /\ task'[t].attempt < MAX_RETRIES
                 /\ task[t].st = "sleeping"
                 /\ RetryableByDesign(task[t].last_error)
        /\ task[t].st \in {"pushing", "returned", "raised"}
              => ~ InRetryLoop(task'[t])
        /\ task'[t].st = "attempting"
              => Len(task'[t].sessions) = task'[t].attempt + 1

C17_BoundedStateMachine == [][C17_Step]_vars

(***************************************************************************)
(* C18.  Every attempt has its own session key, made of the identifier and *)
(* the attempt number: the keys of one run of fetch_with_retries are       *)
(* pairwise different, the runs of two different identifiers share no key, *)
(* and two different pairs (identifier, attempt) never give the same key.  *)
(***************************************************************************)
ProbeChars == {"a", "_", "1"}

ProbeLen == 2

ProbeNames == SeqsUpTo(ProbeChars, ProbeLen)

Attempts == 0 .. MAX_RETRIES - 1

C18_KeysInjective ==
    \A u1, u2 \in ProbeNames \cup RawNames : \A a1, a2 \in Attempts :
        session_id(u1, a1) = session_id(u2, a2) => u1 = u2 /\ a1 = a2

C18_OwnSessionPerAttempt ==
    /\ pc = "check_input" => C18_KeysInjective
    /\ \A t \in Tasks :
          /\ \A i, j \in 1 .. Len(task[t].sessions) :
                i # j => task[t].sessions[i] # task[t].sessions[j]
          /\ InRetryLoop(task[t])
                => Len(task[t].sessions) = task[t].attempt + 1
    /\ \A t, u \in Tasks :
          tasks[t] # tasks[u]
              => \A i \in 1 .. Len(task[t].sessions) :
                     \A j \in 1 .. Len(task[u].sessions) :
                         task[t].sessions[i] # task[u].sessions[j]

\* Two different identifiers in flight, one of them on a later attempt.
C18_Witness ==
    \E t, u \in Tasks :
        /\ tasks[t] # tasks[u]
        /\ Len(task[t].sessions) >= 2
        /\ Len(task[u].sessions) >= 1

(***************************************************************************)
(* C19.  A fault met while one identifier is processed affects no other    *)
(* identifier: when the run has ended, every coroutine that did not itself *)
(* end with an exception has produced its record and had it reported.      *)
(* Fails: an exception of Actor.push_data ends its coroutine, is raised    *)
(* again in the completion loop and ends main; the records of the          *)
(* coroutines not yet drained are never reported.                          *)
(***************************************************************************)
C19_FaultsIsolated ==
    RunEnded =>
        \A u \in Tasks :
            task[u].st # "raised"
                => /\ task[u].st = "returned"
                   /\ task[u].result # NoResult
                   /\ task[u].reported = 1

(***************************************************************************)
(* C20.  A record with error None is pushed inside the coroutine, with the *)
(* slot held, before main counts it and emits its progress message: the    *)
(* dataset always holds at least as many records as there are messages     *)
(* with the success marker, and a success that was reported was pushed.    *)
(***************************************************************************)
OkMessages == { i \in 1 .. Len(status) : status[i].marker = "ok" }

C20_PushedBeforeReported ==
    /\ Len(dataset) >= Cardinality(OkMessages)
    /\ \A t \in Tasks :
          (Succeeded(t) /\ task[t].reported = 1) => task[t].pushed = 1

C20_Step ==
    /\ \A t \in Tasks :
          task'[t].pushed # task[t].pushed
              => /\ Holding(t)
                 /\ task[t].st = "pushing"
                 /\ task[t].reported = 0
                 /\ task'[t].reported = 0
                 /\ dataset' = Append(dataset, task[t].result)
    /\ dataset' # dataset
          => \E t \in Tasks : task'[t].pushed = task[t].pushed + 1
    /\ \A t \in Tasks :
          (Succeeded(t) /\ task'[t].reported # task[t].reported)
              => task[t].pushed = 1 /\ ~ Holding(t)

C20_PushBeforeProgress == [] C20_PushedBeforeReported /\ [][C20_Step]_vars

\* One success was reported while another record, already pushed, was not.
C20_Witness ==
    /\ OkMessages # {}
    /\ Len(dataset) > Cardinality(OkMessages)

====
